---- MODULE Spec2Model ----
(***************************************************************************)
(* IdeaPops: the note store, the date index, the view controller, the      *)
(* editor and action flows, the daily stack navigator and the persistence  *)
(* boundary of App.tsx / DailyStack.tsx / CalendarView.tsx as a state       *)
(* machine.                                                                 *)
(*                                                                         *)
(* Conventions.  A JavaScript string is a sequence of one-character        *)
(* strings.  A nullable value is a sequence of length 0 (null, undefined,  *)
(* absent) or 1 (the value).  A Date is the record of its local calendar   *)
(* fields [year, month (0-based, as getMonth), date]: the program reads a  *)
(* Date only through getFullYear / getMonth / getDate.  Numbers are        *)
(* integers: a rotation stands for a finite double, which JSON text keeps  *)
(* exactly as it keeps an integer.                                         *)
(***************************************************************************)
EXTENDS Integers, Sequences, FiniteSets, TLC

\* ------------------------------------------------------------------ bounds
\* The wall clock runs over 0..MaxClock ticks (one tick = one value of Date.now()).
MaxClock == 2
\* Ticks per local calendar day.
TicksPerDay == 2
\* The store holds at most MaxNotes notes (creation is disabled beyond it).
MaxNotes == 2
\* The stack cursor is advanced at most to MaxCursor.
MaxCursor == 3
\* At most MaxTimers long-press timeouts are pending at once.
MaxTimers == 2
\* The calendar's month cursor leaves the months of the clock's days by at most
\* MaxMonthSlack months.
MaxMonthSlack == 1

\* ------------------------------------------------------------- JS strings
Null == <<>>
Some(x) == <<x>>

Digits == <<"0", "1", "2", "3", "4", "5", "6", "7", "8", "9">>
IsDigit(c) == \E d \in 1..10 : Digits[d] = c
DigitVal(c) == (CHOOSE d \in 1..10 : Digits[d] = c) - 1

\* Number.prototype.toString (base 10) of an integer.
RECURSIVE NatToString(_)
NatToString(n) ==
    IF n < 10 THEN <<Digits[n + 1]>>
    ELSE NatToString(n \div 10) \o <<Digits[(n % 10) + 1]>>
NumToString(n) == IF n < 0 THEN <<"-">> \o NatToString(-n) ELSE NatToString(n)

\* String.prototype.padStart(len, c)
RECURSIVE padStart(_, _, _)
padStart(s, len, c) == IF Len(s) >= len THEN s ELSE padStart(<<c>> \o s, len, c)

\* String.prototype.trim over the model's alphabet (the blank is the only white space).
IsSpace(c) == c = " "
RECURSIVE TrimStart(_)
TrimStart(s) ==
    IF s # <<>> /\ IsSpace(Head(s)) THEN TrimStart(Tail(s)) ELSE s
RECURSIVE TrimEnd(_)
TrimEnd(s) ==
    IF s # <<>> /\ IsSpace(s[Len(s)]) THEN TrimEnd(SubSeq(s, 1, Len(s) - 1)) ELSE s
\* No trimming at all: the text as typed.
trim_none(s) == s
trim(s) == TrimEnd(TrimStart(s))

\* ------------------------------------------------------------------ dates
\* new Date(year, month + 1, 0).getDate()
IsLeap(year) == (year % 4 = 0 /\ year % 100 # 0) \/ year % 400 = 0
getDaysInMonth(year, month) ==
    IF month = 1 THEN (IF IsLeap(year) THEN 29 ELSE 28)
    ELSE IF month \in {3, 5, 8, 10} THEN 30 ELSE 31

\* The local day of tick 0.
EpochDate == [year |-> 2024, month |-> 11, date |-> 31]

NextDay(d) ==
    IF d.date < getDaysInMonth(d.year, d.month) THEN [d EXCEPT !.date = d.date + 1]
    ELSE IF d.month < 11 THEN [d EXCEPT !.month = d.month + 1, !.date = 1]
    ELSE [year |-> d.year + 1, month |-> 0, date |-> 1]

RECURSIVE AddDays(_, _)
AddDays(d, n) == IF n = 0 THEN d ELSE AddDays(NextDay(d), n - 1)

\* new Date() at clock reading t
DateAt(t) == AddDays(EpochDate, t \div TicksPerDay)

toISODateString(date) ==
    LET year == NumToString(date.year)
        month == padStart(NumToString(date.month + 1), 2, "0")
        day == padStart(NumToString(date.date), 2, "0")
    IN year \o <<"-">> \o month \o <<"-">> \o day

\* a < b on calendar days
DayBefore(a, b) ==
    \/ a.year < b.year
    \/ a.year = b.year /\ a.month < b.month
    \/ a.year = b.year /\ a.month = b.month /\ a.date < b.date

\* ------------------------------------------------------------------ notes
YELLOW == <<"y", "e", "l", "l", "o", "w">>
PINK == <<"p", "i", "n", "k">>
BLUE == <<"b", "l", "u", "e">>
GREEN == <<"g", "r", "e", "e", "n">>
PURPLE == <<"p", "u", "r", "p", "l", "e">>
ORANGE == <<"o", "r", "a", "n", "g", "e">>
COLORS == <<YELLOW, PINK, BLUE, GREEN, PURPLE, ORANGE>>

Range(s) == {s[i] : i \in 1..Len(s)}

\* The fields of a Note (types.ts), as property names.
K_id == <<"i", "d">>
K_content == <<"c", "o", "n", "t", "e", "n", "t">>
K_date == <<"d", "a", "t", "e">>
K_timestamp == <<"t", "i", "m", "e", "s", "t", "a", "m", "p">>
K_color == <<"c", "o", "l", "o", "r">>
K_rotation == <<"r", "o", "t", "a", "t", "i", "o", "n">>

\* --------------------------------------------------------- JSON.stringify
\* A string literal: the quote and the backslash are escaped.
\* No escaping: the characters as they are.
JsonEscape_none(s) == s
RECURSIVE JsonEscape(_)
JsonEscape(s) ==
    IF s = <<>> THEN <<>>
    ELSE (IF Head(s) \in {"\"", "\\"} THEN <<"\\", Head(s)>> ELSE <<Head(s)>>)
         \o JsonEscape(Tail(s))
JsonString(s) == <<"\"">> \o JsonEscape(s) \o <<"\"">>
JsonMember(k, text) == JsonString(k) \o <<":">> \o text

\* An object's members are written in property order: id, content, date,
\* timestamp, color, rotation (the literal of handleSaveNote; the spread of an
\* edit keeps the order).
StringifyNote(n) ==
    <<"{">> \o JsonMember(K_id, JsonString(n.id))
    \o <<",">> \o JsonMember(K_content, JsonString(n.content))
    \o <<",">> \o JsonMember(K_date, JsonString(n.date))
    \o <<",">> \o JsonMember(K_timestamp, NumToString(n.timestamp))
    \o <<",">> \o JsonMember(K_color, JsonString(n.color))
    \o <<",">> \o JsonMember(K_rotation, NumToString(n.rotation))
    \o <<"}">>

RECURSIVE StringifyElements(_)
StringifyElements(ns) ==
    IF ns = <<>> THEN <<>>
    ELSE IF Len(ns) = 1 THEN StringifyNote(ns[1])
    ELSE StringifyNote(Head(ns)) \o <<",">> \o StringifyElements(Tail(ns))

JSON_stringify(ns) == <<"[">> \o StringifyElements(ns) \o <<"]">>

\* ------------------------------------------------------------- JSON.parse
\* A parsed value is [tag, v]: null, a number, a string, an array (a sequence of
\* values) or an object (a sequence of [key, val] members in text order).  The
\* grammar is the one JSON.stringify writes (no white space, integers) plus null.
ParseFail == [ok |-> FALSE, pos |-> 0, val |-> [tag |-> "null", v |-> <<>>]]
ParseOk(val, pos) == [ok |-> TRUE, pos |-> pos, val |-> val]
At(txt, i) == IF i >= 1 /\ i <= Len(txt) THEN txt[i] ELSE ""

RECURSIVE ScanString(_, _, _)
ScanString(txt, i, acc) ==
    LET c == At(txt, i)
    IN IF c = "" THEN ParseFail
       ELSE IF c = "\"" THEN ParseOk([tag |-> "str", v |-> acc], i + 1)
       ELSE IF c = "\\"
            THEN (IF At(txt, i + 1) \in {"\"", "\\"}
                  THEN ScanString(txt, i + 2, Append(acc, At(txt, i + 1)))
                  ELSE ParseFail)
       ELSE ScanString(txt, i + 1, Append(acc, c))

RECURSIVE ScanDigits(_, _, _)
ScanDigits(txt, i, acc) ==
    IF IsDigit(At(txt, i)) THEN ScanDigits(txt, i + 1, acc * 10 + DigitVal(At(txt, i)))
    ELSE [v |-> acc, pos |-> i]

ParseNumber(txt, i) ==
    LET neg == At(txt, i) = "-"
        start == IF neg THEN i + 1 ELSE i
    IN IF ~IsDigit(At(txt, start)) THEN ParseFail
       ELSE LET r == ScanDigits(txt, start, 0)
            IN ParseOk([tag |-> "num", v |-> IF neg THEN 0 - r.v ELSE r.v], r.pos)

RECURSIVE ParseValue(_, _)
RECURSIVE ParseElements(_, _, _)
RECURSIVE ParseMembers(_, _, _)
ParseValue(txt, i) ==
    LET c == At(txt, i)
    IN IF c = "\"" THEN ScanString(txt, i + 1, <<>>)
       ELSE IF c = "-" \/ IsDigit(c) THEN ParseNumber(txt, i)
       ELSE IF c = "n"
            THEN (IF i + 3 <= Len(txt) /\ SubSeq(txt, i, i + 3) = <<"n", "u", "l", "l">>
                  THEN ParseOk([tag |-> "null", v |-> <<>>], i + 4)
                  ELSE ParseFail)
       ELSE IF c = "["
            THEN (IF At(txt, i + 1) = "]" THEN ParseOk([tag |-> "arr", v |-> <<>>], i + 2)
                  ELSE ParseElements(txt, i + 1, <<>>))
       ELSE IF c = "{"
            THEN (IF At(txt, i + 1) = "}" THEN ParseOk([tag |-> "obj", v |-> <<>>], i + 2)
                  ELSE ParseMembers(txt, i + 1, <<>>))
       ELSE ParseFail

ParseElements(txt, i, acc) ==
    LET r == ParseValue(txt, i)
    IN IF ~r.ok THEN ParseFail
       ELSE LET acc2 == Append(acc, r.val)
                c == At(txt, r.pos)
            IN IF c = "," THEN ParseElements(txt, r.pos + 1, acc2)
               ELSE IF c = "]" THEN ParseOk([tag |-> "arr", v |-> acc2], r.pos + 1)
               ELSE ParseFail

ParseMembers(txt, i, acc) ==
    IF At(txt, i) # "\"" THEN ParseFail
    ELSE LET k == ScanString(txt, i + 1, <<>>)
         IN IF ~k.ok \/ At(txt, k.pos) # ":" THEN ParseFail
            ELSE LET r == ParseValue(txt, k.pos + 1)
                 IN IF ~r.ok THEN ParseFail
                    ELSE LET acc2 == Append(acc, [key |-> k.val.v, val |-> r.val])
                             c == At(txt, r.pos)
                         IN IF c = "," THEN ParseMembers(txt, r.pos + 1, acc2)
                            ELSE IF c = "}"
                                 THEN ParseOk([tag |-> "obj", v |-> acc2], r.pos + 1)
                            ELSE ParseFail

\* JSON.parse: [ok |-> FALSE] stands for the SyntaxError it throws.
JSON_parse(txt) ==
    LET r == ParseValue(txt, 1)
    IN IF r.ok /\ r.pos = Len(txt) + 1 THEN r ELSE ParseFail

\* obj[key]: the last member of that name, Null (undefined) when there is none.
RECURSIVE GetMember(_, _, _)
GetMember(members, key, i) ==
    IF i = 0 THEN Null
    ELSE IF members[i].key = key THEN Some(members[i].val)
    ELSE GetMember(members, key, i - 1)
HasMember(o, key, tag) ==
    LET m == GetMember(o.v, key, Len(o.v)) IN m # Null /\ m[1].tag = tag
Member(o, key) == GetMember(o.v, key, Len(o.v))[1].v

\* A parsed object read as a Note.
IsNoteValue(o) ==
    /\ o.tag = "obj"
    /\ HasMember(o, K_id, "str") /\ HasMember(o, K_content, "str")
    /\ HasMember(o, K_date, "str") /\ HasMember(o, K_timestamp, "num")
    /\ HasMember(o, K_color, "str") /\ HasMember(o, K_rotation, "num")
NoteOfValue(o) ==
    [id |-> Member(o, K_id), content |-> Member(o, K_content), date |-> Member(o, K_date),
     timestamp |-> Member(o, K_timestamp), color |-> Member(o, K_color),
     rotation |-> Member(o, K_rotation)]
IsNoteArray(val) == val.tag = "arr" /\ \A i \in 1..Len(val.v) : IsNoteValue(val.v[i])
NotesOfValue(val) == [i \in 1..Len(val.v) |-> NoteOfValue(val.v[i])]

\* ------------------------------------------------------------------ state
VARIABLES
    pc,                  \* "load" | "save" | "rerender" | "ready" | "crashed"
    now,                 \* Date.now(), in ticks
    localStorage,        \* the slot 'ideaPops_notes': Null or Some(text)
    storageDenied,       \* setItem throws (quota exceeded, storage blocked)
    loaded,              \* the setNotes update queued by the load effect
    persisted,           \* history: the collection of the last setItem that succeeded
    probe,               \* the result of a Date Index query (see ApplyIndex)
    view,                \* 'daily' | 'calendar'
    isGridMode,
    currentDate,
    notes,
    isModalOpen,
    isDrawerOpen,
    isDeleteConfirmOpen,
    actionNote,          \* Note | null
    editingNoteId,       \* string | null
    newNoteContent,
    newNoteColor,
    currentIndex,        \* DailyStack
    direction,           \* DailyStack
    dragging,            \* DailyStack: a drag of the active card is under way
    armed,               \* DailyStack: the pending timeout longPressTimerRef holds
    leaked,              \* pending timeouts no ref holds any more (captured notes)
    pressed,             \* the pointers that are down on the stack's card
    viewDate             \* CalendarView: Null while unmounted, else Some([year, month])

storeVars == <<notes, localStorage, persisted, loaded>>
viewVars == <<view, isGridMode, currentDate, viewDate>>
editorVars == <<isModalOpen, editingNoteId, newNoteContent, newNoteColor>>
actionVars == <<isDrawerOpen, isDeleteConfirmOpen, actionNote>>
stackVars == <<currentIndex, direction, dragging, armed, leaked, pressed>>
vars == <<pc, now, storageDenied, probe, storeVars, viewVars, editorVars, actionVars, stackVars>>

\* Math.random() is k / RandomSteps for k in 0..RandomSteps-1.
RandomSteps == Len(COLORS)
AllRandoms == 0..(RandomSteps - 1)
\* Math.floor(Math.random() * n)
RandomIndex(k, n) == (k * n) \div RandomSteps

\* ------------------------------------------------------------- Date Index
\* Array.prototype.sort with (a, b) => b.timestamp - a.timestamp: stable, so an
\* element goes behind every earlier element that does not compare after it.
\* The same insertion with a comparison that lets a later element overtake its ties.
RECURSIVE InsertByTimestamp_unstable(_, _)
InsertByTimestamp_unstable(sorted, x) ==
    IF sorted = <<>> THEN <<x>>
    ELSE IF x.timestamp - Head(sorted).timestamp < 0
         THEN <<Head(sorted)>> \o InsertByTimestamp_unstable(Tail(sorted), x)
         ELSE <<x>> \o sorted
RECURSIVE InsertByTimestamp(_, _)
InsertByTimestamp(sorted, x) ==
    IF sorted = <<>> THEN <<x>>
    ELSE IF x.timestamp - Head(sorted).timestamp <= 0
         THEN <<Head(sorted)>> \o InsertByTimestamp(Tail(sorted), x)
         ELSE <<x>> \o sorted
RECURSIVE SortByTimestampDesc(_, _)
SortByTimestampDesc(ns, acc) ==
    IF ns = <<>> THEN acc
    ELSE SortByTimestampDesc(Tail(ns), InsertByTimestamp(acc, Head(ns)))

getNotesForDate(ns, date) ==
    LET dateStr == toISODateString(date)
        OnDate(n) == n.date = dateStr
    IN SortByTimestampDesc(SelectSeq(ns, OnDate), <<>>)

currentNotes == getNotesForDate(notes, currentDate)

\* getRandomColor(excludeColor) with Math.random() = k / RandomSteps
getRandomColor(excludeColor, k) ==
    LET Keep(c) == Some(c) # excludeColor
        availableColors ==
            IF excludeColor # Null THEN SelectSeq(COLORS, Keep) ELSE COLORS
    IN IF Len(availableColors) = 0
       THEN COLORS[RandomIndex(k, Len(COLORS)) + 1]
       ELSE availableColors[RandomIndex(k, Len(availableColors)) + 1]

\* Math.random() * 6 - 3
RandomRotation(k) == (k * 6) \div RandomSteps - 3

\* ---------------------------------------------------- mounting of children
\* DailyStack is rendered under view = 'daily' and not grid mode, keyed by the
\* date string; CalendarView under view = 'calendar'.
StackMounted(v, g) == v = "daily" /\ ~g
Pending == Len(leaked) + (IF armed # Null THEN 1 ELSE 0)

\* The DailyStack instance after a render with (v, g, d): it keeps its state when
\* the same instance stays mounted; a new instance starts from useState(0) and
\* a fresh ref, and the timeouts of the old one stay pending (no cleanup).
StackAfter(v, g, d) ==
    IF /\ StackMounted(view, isGridMode) /\ StackMounted(v, g)
       /\ toISODateString(d) = toISODateString(currentDate)
    THEN UNCHANGED stackVars
    ELSE /\ currentIndex' = 0
         /\ direction' = 0
         /\ dragging' = FALSE
         /\ armed' = Null
         /\ leaked' = leaked \o armed
         /\ UNCHANGED pressed

\* CalendarView after a render with view v: useState(new Date(currentDate)) on mount.
CalendarAfter(v, d) ==
    IF v = "calendar"
    THEN (IF view = "calendar" THEN UNCHANGED viewDate
          ELSE viewDate' = Some([year |-> d.year, month |-> d.month]))
    ELSE viewDate' = Null

\* ------------------------------------------------------------ persistence
\* The save effect with a write only of a collection that holds a note.
SaveEffect_nonEmpty(ns, nextPc) ==
    IF storageDenied
    THEN UNCHANGED <<localStorage, persisted>> /\ pc' = "crashed"
    ELSE /\ IF Len(ns) > 0
            THEN localStorage' = Some(JSON_stringify(ns)) /\ persisted' = Some(ns)
            ELSE UNCHANGED <<localStorage, persisted>>
         /\ pc' = nextPc

\* The save effect: localStorage.setItem('ideaPops_notes', JSON.stringify(notes)).
\* setItem throws when the storage refuses the write; the effect has no handler,
\* so the error unmounts the tree.
SaveEffect(ns, nextPc) ==
    IF storageDenied
    THEN UNCHANGED <<localStorage, persisted>> /\ pc' = "crashed"
    ELSE /\ localStorage' = Some(JSON_stringify(ns))
         /\ persisted' = Some(ns)
         /\ pc' = nextPc

\* --------------------------------------------------------------- start-up
\* What the slot may hold when the page is first opened: nothing, an empty
\* string, text that does not parse, the texts null and {}.  (Later sessions
\* start from whatever the program itself stored: see Restart.)
InitialSlots ==
    {Null, Some(<<>>), Some(<<"[", "{">>), Some(<<"n", "u", "l", "l">>), Some(<<"{", "}">>)}

\* The useState initial values of App, DailyStack (unmounted children hold none).
Mounted ==
    /\ pc = "load"
    /\ loaded = Null
    /\ view = "daily"
    /\ isGridMode = FALSE
    /\ currentDate = DateAt(now)
    /\ notes = <<>>
    /\ isModalOpen = FALSE
    /\ isDrawerOpen = FALSE
    /\ isDeleteConfirmOpen = FALSE
    /\ actionNote = Null
    /\ editingNoteId = Null
    /\ newNoteContent = <<>>
    /\ newNoteColor = YELLOW
    /\ currentIndex = 0
    /\ direction = 0
    /\ dragging = FALSE
    /\ armed = Null
    /\ leaked = <<>>
    /\ pressed = 0
    /\ viewDate = Null

Init ==
    /\ now = 0
    /\ storageDenied = FALSE
    /\ persisted = Null
    /\ probe = Null
    /\ localStorage \in InitialSlots
    /\ Mounted

\* The load effect: getItem, and setNotes(JSON.parse(saved)) when saved is truthy
\* and parses.  The update is queued: the effects of this commit still see [].
LoadEffect ==
    /\ pc = "load"
    /\ LET saved == localStorage
       IN IF saved # Null /\ saved[1] # <<>>
          THEN LET r == JSON_parse(saved[1])
               IN IF r.ok
                  THEN loaded' = Some([isArray |-> r.val.tag = "arr",
                                       value |-> IF IsNoteArray(r.val)
                                                 THEN NotesOfValue(r.val) ELSE <<>>])
                  ELSE loaded' = Null
          ELSE loaded' = Null
    /\ pc' = "save"
    /\ UNCHANGED <<now, storageDenied, probe, notes, localStorage, persisted, viewVars,
                   editorVars, actionVars, stackVars>>

\* The save effect of the mount commit, with the notes of the first render.
MountSaveEffect ==
    /\ pc = "save"
    /\ SaveEffect(notes, IF loaded # Null THEN "rerender" ELSE "ready")
    /\ UNCHANGED <<now, storageDenied, probe, notes, loaded, viewVars, editorVars, actionVars, stackVars>>

\* The render with the loaded value and the save effect of its commit.  The
\* render calls notes.filter (getNotesForDate): a value that is no array throws.
Rerender ==
    /\ pc = "rerender"
    /\ loaded' = Null
    /\ IF loaded[1].isArray
       THEN notes' = loaded[1].value /\ SaveEffect(notes', "ready")
       ELSE pc' = "crashed" /\ UNCHANGED <<notes, localStorage, persisted>>
    /\ UNCHANGED <<now, storageDenied, probe, viewVars, editorVars, actionVars, stackVars>>

\* The page is opened again: a new App instance over the same slot.
Restart ==
    /\ pc \in {"ready", "crashed"}
    /\ UNCHANGED <<now, storageDenied, probe, localStorage, persisted>>
    /\ pc' = "load"
    /\ loaded' = Null
    /\ view' = "daily"
    /\ isGridMode' = FALSE
    /\ currentDate' = DateAt(now)
    /\ notes' = <<>>
    /\ isModalOpen' = FALSE
    /\ isDrawerOpen' = FALSE
    /\ isDeleteConfirmOpen' = FALSE
    /\ actionNote' = Null
    /\ editingNoteId' = Null
    /\ newNoteContent' = <<>>
    /\ newNoteColor' = YELLOW
    /\ currentIndex' = 0
    /\ direction' = 0
    /\ dragging' = FALSE
    /\ armed' = Null
    /\ leaked' = <<>>
    /\ pressed' = 0
    /\ viewDate' = Null

\* ------------------------------------------------------------ environment
\* The storage starts or stops refusing writes (quota reached or freed).
StorageChange ==
    /\ pc = "ready"
    /\ storageDenied' = ~storageDenied
    /\ UNCHANGED <<pc, now, probe, storeVars, viewVars, editorVars, actionVars, stackVars>>

Tick ==
    /\ pc = "ready"
    /\ now < MaxClock
    /\ now' = now + 1
    /\ UNCHANGED <<pc, storageDenied, probe, storeVars, viewVars, editorVars, actionVars, stackVars>>

\* Which layer receives pointer input: the confirmation (z-60) covers all; the
\* editor and the drawer (both z-50, the editor later in the document) cover the
\* page; the editor covers the drawer.
PageExposed == ~isModalOpen /\ ~isDrawerOpen /\ ~isDeleteConfirmOpen
ModalExposed == isModalOpen /\ ~isDeleteConfirmOpen
DrawerExposed == isDrawerOpen /\ ~isModalOpen /\ ~isDeleteConfirmOpen

\* The same handler with a today that is one day ahead of the local day.
handleVisibilityChange_dayAhead ==
    /\ pc = "ready"
    /\ LET today == NextDay(DateAt(now))
           todayString == toISODateString(today)
           prevDateString == toISODateString(currentDate)
       IN /\ currentDate' = IF todayString # prevDateString THEN today ELSE currentDate
          /\ StackAfter(view, isGridMode, currentDate')
    /\ UNCHANGED <<pc, now, storageDenied, probe, storeVars, view, isGridMode, viewDate, editorVars, actionVars>>

\* visibilitychange with document.visibilityState === 'visible'
handleVisibilityChange ==
    /\ pc = "ready"
    /\ LET today == DateAt(now)
           todayString == toISODateString(today)
           prevDateString == toISODateString(currentDate)
       IN /\ currentDate' = IF todayString # prevDateString THEN today ELSE currentDate
          /\ StackAfter(view, isGridMode, currentDate')
    /\ UNCHANGED <<pc, now, storageDenied, probe, storeVars, view, isGridMode, viewDate, editorVars, actionVars>>

\* -------------------------------------------------------- View Controller
\* The same handler without setView('daily').
handleDateChange_keepView(date) ==
    /\ currentDate' = date
    /\ view' = view
    /\ isGridMode' = FALSE
    /\ StackAfter(view, FALSE, date)
    /\ CalendarAfter(view, date)

handleDateChange(date) ==
    /\ currentDate' = date
    /\ view' = "daily"
    /\ isGridMode' = FALSE
    /\ StackAfter("daily", FALSE, date)
    /\ CalendarAfter("daily", date)

\* The same handler without the reset of the grid mode.
handleViewSwitch_noReset(newView) ==
    /\ pc = "ready"
    /\ PageExposed
    /\ view' = newView
    /\ isGridMode' = isGridMode
    /\ StackAfter(newView, isGridMode', currentDate)
    /\ CalendarAfter(newView, currentDate)
    /\ UNCHANGED <<pc, now, storageDenied, probe, storeVars, currentDate, editorVars, actionVars>>

handleViewSwitch(newView) ==
    /\ pc = "ready"
    /\ PageExposed
    /\ view' = newView
    /\ isGridMode' = IF newView = "calendar" THEN FALSE ELSE isGridMode
    /\ StackAfter(newView, isGridMode', currentDate)
    /\ CalendarAfter(newView, currentDate)
    /\ UNCHANGED <<pc, now, storageDenied, probe, storeVars, currentDate, editorVars, actionVars>>

\* The toggle button is rendered under view = 'daily' with notes on the day.
toggleGridMode ==
    /\ pc = "ready"
    /\ PageExposed
    /\ view = "daily"
    /\ Len(currentNotes) > 0
    /\ isGridMode' = ~isGridMode
    /\ StackAfter(view, isGridMode', currentDate)
    /\ UNCHANGED <<pc, now, storageDenied, probe, storeVars, view, currentDate, viewDate, editorVars, actionVars>>

\* ----------------------------------------------------- Calendar Navigator
\* The year and the month as given, with no carry into the year.
MonthOf_raw(year, month) == [year |-> year, month |-> month]
\* new Date(year, month, 1) for month in -1..12, read back as year and month
MonthOf(year, month) ==
    IF month < 0 THEN [year |-> year - 1, month |-> month + 12]
    ELSE IF month > 11 THEN [year |-> year + 1, month |-> month - 12]
    ELSE [year |-> year, month |-> month]

\* The days the clock visits, and the months the cursor may show.
ModelDays == {DateAt(t) : t \in 0..MaxClock}
MonthIndex(m) == m.year * 12 + m.month
MonthInRange(m) ==
    \E d \in ModelDays :
        /\ MonthIndex(m) >= MonthIndex(d) - MaxMonthSlack
        /\ MonthIndex(m) <= MonthIndex(d) + MaxMonthSlack

prevMonth ==
    /\ pc = "ready"
    /\ PageExposed
    /\ view = "calendar"
    /\ LET year == viewDate[1].year
           month == viewDate[1].month
       IN /\ MonthInRange(MonthOf(year, month - 1))
          /\ viewDate' = Some(MonthOf(year, month - 1))
    /\ UNCHANGED <<pc, now, storageDenied, probe, storeVars, view, isGridMode, currentDate, editorVars,
                   actionVars, stackVars>>

nextMonth ==
    /\ pc = "ready"
    /\ PageExposed
    /\ view = "calendar"
    /\ LET year == viewDate[1].year
           month == viewDate[1].month
       IN /\ MonthInRange(MonthOf(year, month + 1))
          /\ viewDate' = Some(MonthOf(year, month + 1))
    /\ UNCHANGED <<pc, now, storageDenied, probe, storeVars, view, isGridMode, currentDate, editorVars,
                   actionVars, stackVars>>

\* A day cell's onClick: onDateChange(new Date(year, month, day)).  The days
\* offered are those of the shown month that the clock visits.
DayCellClick(day) ==
    /\ pc = "ready"
    /\ PageExposed
    /\ view = "calendar"
    /\ LET year == viewDate[1].year
           month == viewDate[1].month
           newDate == [year |-> year, month |-> month, date |-> day]
       IN /\ day \in 1..getDaysInMonth(year, month)
          /\ newDate \in ModelDays
          /\ handleDateChange(newDate)
    /\ UNCHANGED <<pc, now, storageDenied, probe, storeVars, editorVars, actionVars>>

\* ------------------------------------------------------- Note Editor Flow
\* The texts the user types into the textarea.
Buffers == {<<>>, <<" ">>, <<"a">>, <<" ", "\"", "\\">>}

\* The same handler without setEditingNoteId(null).
openNewNoteModal_keepTarget(k) ==
    /\ pc = "ready"
    /\ PageExposed
    /\ view = "daily"
    /\ Len(notes) < MaxNotes
    /\ LET currentDayNotes == getNotesForDate(notes, currentDate)
           lastNoteColor ==
               IF Len(currentDayNotes) > 0 THEN Some(currentDayNotes[1].color) ELSE Null
       IN /\ newNoteContent' = <<>>
          /\ newNoteColor' = getRandomColor(lastNoteColor, k)
          /\ isModalOpen' = TRUE
    /\ UNCHANGED <<pc, now, storageDenied, probe, storeVars, viewVars, editingNoteId, actionVars, stackVars>>

openNewNoteModal(k) ==
    /\ pc = "ready"
    /\ PageExposed
    /\ view = "daily"
    /\ Len(notes) < MaxNotes
    /\ LET currentDayNotes == getNotesForDate(notes, currentDate)
           lastNoteColor ==
               IF Len(currentDayNotes) > 0 THEN Some(currentDayNotes[1].color) ELSE Null
       IN /\ newNoteContent' = <<>>
          /\ newNoteColor' = getRandomColor(lastNoteColor, k)
          /\ editingNoteId' = Null
          /\ isModalOpen' = TRUE
    /\ UNCHANGED <<pc, now, storageDenied, probe, storeVars, viewVars, actionVars, stackVars>>

\* The textarea's onChange.
setNewNoteContent(value) ==
    /\ pc = "ready"
    /\ ModalExposed
    /\ newNoteContent' = value
    /\ UNCHANGED <<pc, now, storageDenied, probe, storeVars, viewVars, isModalOpen, editingNoteId, newNoteColor,
                   actionVars, stackVars>>

\* prev.map(n => n.id === editingNoteId ? { ...n, content } : n)
\* The same map without the test of the id.
UpdateContent_all(prev, id, content) ==
    [i \in 1..Len(prev) |-> [prev[i] EXCEPT !.content = content]]
UpdateContent(prev, id, content) ==
    [i \in 1..Len(prev) |->
        IF prev[i].id = id THEN [prev[i] EXCEPT !.content = content] ELSE prev[i]]

\* The note literal of handleSaveNote; k is the Math.random() of its rotation.
NewNote(k) ==
    [id |-> NumToString(now),
     content |-> newNoteContent,
     date |-> toISODateString(currentDate),
     timestamp |-> now,
     color |-> newNoteColor,
     rotation |-> RandomRotation(k)]

\* The same handler with the new note put behind the others: [...prev, newNote].
handleSaveNote_append(k) ==
    /\ pc = "ready"
    /\ ModalExposed
    /\ IF trim(newNoteContent) = <<>>
       THEN UNCHANGED vars
       ELSE /\ IF editingNoteId # Null /\ editingNoteId[1] # <<>>
               THEN notes' = UpdateContent(notes, editingNoteId[1], newNoteContent)
               ELSE notes' = notes \o <<NewNote(k)>>
            /\ newNoteContent' = <<>>
            /\ editingNoteId' = Null
            /\ isModalOpen' = FALSE
            /\ SaveEffect(notes', "ready")
            /\ UNCHANGED <<now, storageDenied, probe, loaded, viewVars, newNoteColor, actionVars, stackVars>>

\* The handler is taken as callable whenever the editor is shown (the button's
\* disabled attribute repeats the handler's own check).
handleSaveNote(k) ==
    /\ pc = "ready"
    /\ ModalExposed
    /\ IF trim(newNoteContent) = <<>>
       THEN UNCHANGED vars
       ELSE /\ IF editingNoteId # Null /\ editingNoteId[1] # <<>>
               THEN notes' = UpdateContent(notes, editingNoteId[1], newNoteContent)
               ELSE notes' = <<NewNote(k)>> \o notes
            /\ newNoteContent' = <<>>
            /\ editingNoteId' = Null
            /\ isModalOpen' = FALSE
            /\ SaveEffect(notes', "ready")
            /\ UNCHANGED <<now, storageDenied, probe, loaded, viewVars, newNoteColor, actionVars, stackVars>>

\* The editor's backdrop and its close button: setIsModalOpen(false).
closeModal ==
    /\ pc = "ready"
    /\ ModalExposed
    /\ isModalOpen' = FALSE
    /\ UNCHANGED <<pc, now, storageDenied, probe, storeVars, viewVars, editingNoteId, newNoteContent, newNoteColor,
                   actionVars, stackVars>>

\* ------------------------------------------------------------ Action Flow
handleLongPressNote(note) ==
    /\ actionNote' = Some(note)
    /\ isDrawerOpen' = TRUE

\* Grid view: a note's onClick.
GridNoteClick(i) ==
    /\ pc = "ready"
    /\ PageExposed
    /\ view = "daily"
    /\ isGridMode
    /\ i \in 1..Len(currentNotes)
    /\ handleLongPressNote(currentNotes[i])
    /\ UNCHANGED <<pc, now, storageDenied, probe, storeVars, viewVars, editorVars, isDeleteConfirmOpen, stackVars>>

handleEditAction ==
    /\ pc = "ready"
    /\ DrawerExposed
    /\ IF actionNote # Null
       THEN /\ newNoteContent' = actionNote[1].content
            /\ newNoteColor' = actionNote[1].color
            /\ editingNoteId' = Some(actionNote[1].id)
            /\ isDrawerOpen' = FALSE
            /\ isModalOpen' = TRUE
       ELSE UNCHANGED <<editorVars, isDrawerOpen>>
    /\ UNCHANGED <<pc, now, storageDenied, probe, storeVars, viewVars, isDeleteConfirmOpen, actionNote, stackVars>>

handleDeleteAction ==
    /\ pc = "ready"
    /\ DrawerExposed
    /\ isDrawerOpen' = FALSE
    /\ isDeleteConfirmOpen' = TRUE
    /\ UNCHANGED <<pc, now, storageDenied, probe, storeVars, viewVars, editorVars, actionNote, stackVars>>

\* The drawer's backdrop: setIsDrawerOpen(false).
closeDrawer ==
    /\ pc = "ready"
    /\ DrawerExposed
    /\ isDrawerOpen' = FALSE
    /\ UNCHANGED <<pc, now, storageDenied, probe, storeVars, viewVars, editorVars, isDeleteConfirmOpen, actionNote,
                   stackVars>>

\* The filter falling back on the first note when no note has the id.
RemoveId_orFirst(prev, id) ==
    LET Other(n) == n.id # id
    IN IF prev # <<>> /\ \A i \in 1..Len(prev) : Other(prev[i])
       THEN Tail(prev) ELSE SelectSeq(prev, Other)

\* prev.filter(n => n.id !== actionNote.id)
RemoveId(prev, id) ==
    LET Other(n) == n.id # id IN SelectSeq(prev, Other)

confirmDelete ==
    /\ pc = "ready"
    /\ isDeleteConfirmOpen
    /\ IF actionNote # Null
       THEN notes' = RemoveId(notes, actionNote[1].id) /\ SaveEffect(notes', "ready")
       ELSE UNCHANGED <<pc, notes, localStorage, persisted>>
    /\ isDeleteConfirmOpen' = FALSE
    /\ actionNote' = Null
    /\ UNCHANGED <<now, storageDenied, probe, loaded, viewVars, editorVars, isDrawerOpen, stackVars>>

\* "Keep It" and the confirmation's backdrop: setIsDeleteConfirmOpen(false).
closeDeleteConfirm ==
    /\ pc = "ready"
    /\ isDeleteConfirmOpen
    /\ isDeleteConfirmOpen' = FALSE
    /\ UNCHANGED <<pc, now, storageDenied, probe, storeVars, viewVars, editorVars, isDrawerOpen, actionNote,
                   stackVars>>

\* ---------------------------------------------------- Daily Stack Navigator
swipeThreshold == 100

\* DailyStack's early return: with no notes nothing below is rendered.
CardRendered == StackMounted(view, isGridMode) /\ Len(currentNotes) > 0
\* a % b of JavaScript (the sign of the dividend), for b > 0
JsRem(a, b) == IF a >= 0 THEN a % b ELSE 0 - ((0 - a) % b)
activeIndex == JsRem(currentIndex, Len(currentNotes))
nextIndex == JsRem(currentIndex + 1, Len(currentNotes))
activeNote == currentNotes[activeIndex + 1]
nextNote == currentNotes[nextIndex + 1]

\* info.offset.x at the end of a drag
DragOffsets ==
    {0 - (swipeThreshold + 1), 0 - swipeThreshold, 0, swipeThreshold, swipeThreshold + 1}
Abs(x) == IF x < 0 THEN 0 - x ELSE x

\* onPointerDown: a timeout that will call onLongPress(activeNote) is stored in
\* the ref; the timeout the ref held before stays pending.
handlePointerDown ==
    /\ pc = "ready"
    /\ PageExposed
    /\ CardRendered
    /\ Pending < MaxTimers
    /\ pressed < MaxTimers
    /\ leaked' = leaked \o armed
    /\ armed' = Some(activeNote)
    /\ pressed' = pressed + 1
    /\ UNCHANGED <<pc, now, storageDenied, probe, storeVars, viewVars, editorVars, actionVars, currentIndex,
                   direction, dragging>>

\* onPointerUp, onPointerLeave: clearTimeout of the ref's timeout.
cancelLongPress ==
    /\ pc = "ready"
    /\ CardRendered
    /\ armed' = Null
    /\ pressed' = IF pressed > 0 THEN pressed - 1 ELSE 0
    /\ UNCHANGED <<pc, now, storageDenied, probe, storeVars, viewVars, editorVars, actionVars, currentIndex,
                   direction, dragging, leaked>>

\* onDragStart = cancelLongPress, at the start of a drag of the card.
handleDragStart ==
    /\ pc = "ready"
    /\ PageExposed
    /\ CardRendered
    /\ ~dragging
    /\ armed' = Null
    /\ dragging' = TRUE
    /\ UNCHANGED <<pc, now, storageDenied, probe, storeVars, viewVars, editorVars, actionVars, currentIndex,
                   direction, leaked, pressed>>

\* The same handler with a swipe at the threshold taken as past it.
handleDragEnd_atThreshold(offsetX) ==
    /\ pc = "ready"
    /\ CardRendered
    /\ dragging
    /\ dragging' = FALSE
    /\ IF Abs(offsetX) >= swipeThreshold
       THEN /\ currentIndex < MaxCursor
            /\ direction' = IF offsetX > 0 THEN 1 ELSE -1
            /\ currentIndex' = currentIndex + 1
       ELSE UNCHANGED <<direction, currentIndex>>
    /\ UNCHANGED <<pc, now, storageDenied, probe, storeVars, viewVars, editorVars, actionVars, armed, leaked, pressed>>

\* The same handler with a cursor that follows the swipe's direction.
handleDragEnd_signed(offsetX) ==
    /\ pc = "ready"
    /\ CardRendered
    /\ dragging
    /\ dragging' = FALSE
    /\ IF Abs(offsetX) > swipeThreshold
       THEN /\ currentIndex < MaxCursor
            /\ direction' = IF offsetX > 0 THEN 1 ELSE -1
            /\ currentIndex' = currentIndex + direction'
       ELSE UNCHANGED <<direction, currentIndex>>
    /\ UNCHANGED <<pc, now, storageDenied, probe, storeVars, viewVars, editorVars, actionVars, armed, leaked, pressed>>

handleDragEnd(offsetX) ==
    /\ pc = "ready"
    /\ CardRendered
    /\ dragging
    /\ dragging' = FALSE
    /\ IF Abs(offsetX) > swipeThreshold
       THEN /\ currentIndex < MaxCursor
            /\ direction' = IF offsetX > 0 THEN 1 ELSE -1
            /\ currentIndex' = currentIndex + 1
       ELSE UNCHANGED <<direction, currentIndex>>
    /\ UNCHANGED <<pc, now, storageDenied, probe, storeVars, viewVars, editorVars, actionVars, armed, leaked, pressed>>

\* The ref's timeout fires after 500 ms: onLongPress(activeNote) of its render.
LongPressTimeout ==
    /\ pc = "ready"
    /\ armed # Null
    /\ handleLongPressNote(armed[1])
    /\ armed' = Null
    /\ UNCHANGED <<pc, now, storageDenied, probe, storeVars, viewVars, editorVars, isDeleteConfirmOpen,
                   currentIndex, direction, dragging, leaked, pressed>>

\* A timeout no ref holds fires.
LeakedTimeout(i) ==
    /\ pc = "ready"
    /\ i \in 1..Len(leaked)
    /\ handleLongPressNote(leaked[i])
    /\ leaked' = SubSeq(leaked, 1, i - 1) \o SubSeq(leaked, i + 1, Len(leaked))
    /\ UNCHANGED <<pc, now, storageDenied, probe, storeVars, viewVars, editorVars, isDeleteConfirmOpen,
                   currentIndex, direction, dragging, armed, pressed>>

\* ---------------------------------------------------------- specification
\* Start-up, the clock and the foreground signal.
LifeNext ==
    \/ LoadEffect
    \/ MountSaveEffect
    \/ Rerender
    \/ Restart
    \/ Tick
    \/ handleVisibilityChange

\* The tabs and the calendar.
CalendarNext ==
    \/ \E newView \in {"daily", "calendar"} : handleViewSwitch(newView)
    \/ prevMonth
    \/ nextMonth
    \/ \E day \in 1..31 : DayCellClick(day)

\* The grid presentation of the day.
GridNext ==
    \/ toggleGridMode
    \/ \E i \in 1..MaxNotes : GridNoteClick(i)

\* The editor, with Math.random() drawn from Rands and the typed texts from Bufs.
EditorNext(Rands, Bufs) ==
    \/ \E k \in Rands : openNewNoteModal(k)
    \/ \E value \in Bufs : setNewNoteContent(value)
    \/ \E k \in Rands : handleSaveNote(k)
    \/ closeModal

\* The drawer and the delete confirmation.
ActionNext ==
    \/ handleEditAction
    \/ handleDeleteAction
    \/ closeDrawer
    \/ confirmDelete
    \/ closeDeleteConfirm

\* The gestures on the stack's card and the long-press timeouts.
GestureNext ==
    \/ handlePointerDown
    \/ cancelLongPress
    \/ handleDragStart
    \/ \E offsetX \in DragOffsets : handleDragEnd(offsetX)
    \/ LongPressTimeout
    \/ \E i \in 1..MaxTimers : LeakedTimeout(i)

\* Two readings of Math.random(): the least and the greatest.
EndRandoms == {0, RandomSteps - 1}

\* The whole page without the stack's gestures.
Next == LifeNext \/ EditorNext(EndRandoms, Buffers) \/ ActionNext \/ GridNext

Spec == Init /\ [][Next]_vars

\* The page with the calendar: the selected date moves by the calendar and by
\* the visibility handler while notes are created on the days selected.
PlainBuffers == {<<>>, <<"a">>}
ViewNext == LifeNext \/ CalendarNext \/ GridNext \/ EditorNext(EndRandoms, PlainBuffers) \/ ActionNext

SpecView == Init /\ [][ViewNext]_vars

\* The page with the stack's gestures and timeouts.
StackNext == LifeNext \/ EditorNext({0}, {<<"a">>}) \/ ActionNext \/ GestureNext

SpecStack == Init /\ [][StackNext]_vars

\* The page over a storage that starts and stops refusing writes.
StorageNext == LifeNext \/ EditorNext({0}, {<<"a">>}) \/ ActionNext \/ GridNext \/ StorageChange

SpecStorage == Init /\ [][StorageNext]_vars

\* The page with the swipes of the stack's card and no long-press.
SwipeNext ==
    \/ LifeNext
    \/ EditorNext({0}, {<<"a">>})
    \/ ActionNext
    \/ GridNext
    \/ handleDragStart
    \/ \E offsetX \in DragOffsets : handleDragEnd(offsetX)

SpecSwipe == Init /\ [][SwipeNext]_vars

\* ------------------------------------------------------ the Date Index alone
\* getNotesForDate (part_000:121-124) over every store of at most MaxNotes + 1
\* notes: the stores a slot can hold once the clock was set back between two
\* saves, so timestamps in any order, ties, and repeated records.
IndexNotes ==
    { [id |-> NumToString(i), content |-> <<"a">>, date |-> toISODateString(d),
       timestamp |-> t, color |-> YELLOW, rotation |-> 0] :
          i \in 0..1, d \in ModelDays, t \in 0..MaxClock }
IndexStores == UNION { [1..n -> IndexNotes] : n \in 0..(MaxNotes + 1) }

InitIndex ==
    /\ pc = "index"
    /\ now = MaxClock
    /\ storageDenied = FALSE
    /\ localStorage = Null
    /\ persisted = Null
    /\ loaded = Null
    /\ probe = Null
    /\ notes \in IndexStores
    /\ currentDate \in ModelDays
    /\ view = "daily" /\ isGridMode = FALSE /\ viewDate = Null
    /\ isModalOpen = FALSE /\ editingNoteId = Null
    /\ newNoteContent = <<>> /\ newNoteColor = YELLOW
    /\ isDrawerOpen = FALSE /\ isDeleteConfirmOpen = FALSE /\ actionNote = Null
    /\ currentIndex = 0 /\ direction = 0 /\ dragging = FALSE
    /\ armed = Null /\ leaked = <<>> /\ pressed = 0

\* const currentNotes = getNotesForDate(currentDate)
ApplyIndex ==
    /\ pc = "index"
    /\ probe' = Some(getNotesForDate(notes, currentDate))
    /\ pc' = "indexed"
    /\ UNCHANGED <<now, storageDenied, storeVars, viewVars, editorVars, actionVars, stackVars>>

SpecIndex == InitIndex /\ [][ApplyIndex]_vars

\* ======================================================================
\* Properties
\* ======================================================================

\* ---------------------------------------------------------------- C1
\* The positions of the store whose note is on the selected date.
OnDatePositions == { i \in 1..Len(notes) : notes[i].date = toISODateString(currentDate) }
\* The place a position must take: behind every position with a greater
\* timestamp and behind every earlier position with the same timestamp.
PlaceOf(i) ==
    1 + Cardinality({ j \in OnDatePositions :
                        \/ notes[j].timestamp > notes[i].timestamp
                        \/ notes[j].timestamp = notes[i].timestamp /\ j < i })

\* C1: the Date Index query for a date returns exactly the notes of that date
\* (none missing, none of another date, as many as the store holds), ordered by
\* timestamp descending, notes with equal timestamps in their store order.
C1_DateIndexExact ==
    pc = "indexed" =>
        /\ probe # Null
        /\ Len(probe[1]) = Cardinality(OnDatePositions)
        /\ \A i \in OnDatePositions : probe[1][PlaceOf(i)] = notes[i]

\* A query that left out a note of another date and returned two different
\* notes of one timestamp.
C1_Witness ==
    /\ pc = "indexed"
    /\ probe # Null
    /\ Len(probe[1]) = 2
    /\ Len(notes) = 3
    /\ \E i, j \in OnDatePositions :
          i < j /\ notes[i].timestamp = notes[j].timestamp /\ notes[i] # notes[j]

\* ---------------------------------------------------------------- C2
\* A text of white space only (the empty text included).
Blank(s) == \A i \in 1..Len(s) : s[i] = " "

\* C2: a Save with an empty or whitespace-only buffer, in create and in edit
\* mode, changes neither the notes, nor the buffer, nor the edit target, nor
\* the editor's open state.
C2_BlankSaveRejected ==
    [][\A k \in AllRandoms :
          (handleSaveNote(k) /\ Blank(newNoteContent)) =>
              UNCHANGED <<notes, newNoteContent, editingNoteId, isModalOpen>>]_vars

\* The editor open on an existing note with a buffer of one space: the state
\* a rejected Save is taken in and left in.
C2_Witness ==
    /\ pc = "ready"
    /\ ModalExposed
    /\ editingNoteId # Null
    /\ newNoteContent = <<" ">>
    /\ \E i \in 1..Len(notes) : Some(notes[i].id) = editingNoteId

\* ---------------------------------------------------------------- C3
\* C3: a Save in edit mode with a non-blank buffer keeps the number and the
\* order of the notes, gives the notes of the target id the buffer as content
\* and keeps their id, date, timestamp, color and rotation, and keeps every
\* other note as it is.
C3_EditSaveFrame ==
    [][\A k \in AllRandoms :
          (handleSaveNote(k) /\ ~Blank(newNoteContent) /\ editingNoteId # Null) =>
              /\ Len(notes') = Len(notes)
              /\ \A i \in 1..Len(notes) :
                    IF Some(notes[i].id) = editingNoteId
                    THEN /\ notes'[i].content = newNoteContent
                         /\ notes'[i].id = notes[i].id
                         /\ notes'[i].date = notes[i].date
                         /\ notes'[i].timestamp = notes[i].timestamp
                         /\ notes'[i].color = notes[i].color
                         /\ notes'[i].rotation = notes[i].rotation
                    ELSE notes'[i] = notes[i]]_vars

\* After an edit was saved: the editor is closed, the note picked for the
\* action (still held as it was picked) has a newer content in the store, and
\* the store holds a note of another id.
C3_Witness ==
    /\ pc = "ready"
    /\ ~isModalOpen
    /\ editingNoteId = Null
    /\ actionNote # Null
    /\ Len(notes) = 2
    /\ \E i, j \in 1..Len(notes) :
          /\ notes[i].id = actionNote[1].id
          /\ notes[i].content # actionNote[1].content
          /\ notes[j].id # actionNote[1].id

\* ---------------------------------------------------------------- C4
\* The sequence s without its i-th element.
WithoutAt(s, i) == SubSeq(s, 1, i - 1) \o SubSeq(s, i + 1, Len(s))

\* C4: a confirmed delete removes exactly one entry, the one of the action
\* target's id, and keeps the rest in order; with no entry of that id the
\* store is unchanged.
C4_DeleteExactlyOne ==
    [][(confirmDelete /\ actionNote # Null) =>
          IF \E i \in 1..Len(notes) : notes[i].id = actionNote[1].id
          THEN \E i \in 1..Len(notes) :
                  notes[i].id = actionNote[1].id /\ notes' = WithoutAt(notes, i)
          ELSE notes' = notes]_vars

\* ---------------------------------------------------------------- C5
\* C5: no two notes of the store have the same id.
C5_IdsUnique ==
    \A i, j \in 1..Len(notes) : i # j => notes[i].id # notes[j].id

\* ---------------------------------------------------------------- C6
\* The notes of the store on the selected date, in store order (newest first).
OnSelectedDate == SelectSeq(notes, LAMBDA n : n.date = toISODateString(currentDate))

\* C6: when a Save in create mode stores a note on a date that has notes
\* already, the new note's color differs from the color of the note created
\* last on that date.
C6_ColorDiffersFromLast ==
    [][\A k \in AllRandoms :
          (/\ handleSaveNote(k)
           /\ ~Blank(newNoteContent)
           /\ editingNoteId = Null
           /\ OnSelectedDate # <<>>) =>
              /\ notes'[1].date = OnSelectedDate[1].date
              /\ notes'[1].color # OnSelectedDate[1].color]_vars

\* ---------------------------------------------------------------- C7
\* The gestures the stack's card offers.
CardGesture ==
    \/ handlePointerDown
    \/ cancelLongPress
    \/ handleDragStart
    \/ \E offsetX \in DragOffsets : handleDragEnd(offsetX)

\* C7: with n notes on the selected day and the stack shown, for n > 0 the
\* active index is the cursor modulo n and the next index is the cursor plus
\* one modulo n, both within 0..n-1; for n = 1 the active and the next note
\* are the same note; for n = 0 the card offers no swipe and no long-press.
C7_StackIndices ==
    (pc = "ready" /\ StackMounted(view, isGridMode)) =>
        LET n == Len(currentNotes)
        IN /\ n > 0 =>
                /\ activeIndex \in 0..(n - 1)
                /\ nextIndex \in 0..(n - 1)
                /\ \E q \in 0..currentIndex : currentIndex = q * n + activeIndex
                /\ \E q \in 0..(currentIndex + 1) : currentIndex + 1 = q * n + nextIndex
           /\ n = 1 => activeIndex = nextIndex /\ activeNote = nextNote
           /\ n = 0 => ~(ENABLED CardGesture)

\* Two notes on the day and the cursor swiped past both: the next index has
\* wrapped to the first note.
C7_Witness ==
    /\ pc = "ready"
    /\ CardRendered
    /\ Len(currentNotes) = 2
    /\ currentIndex = MaxCursor
    /\ activeIndex = 1
    /\ nextIndex = 0

\* ---------------------------------------------------------------- C8
\* C8: when the page becomes visible and the local day is later than the
\* selected date, the selected date becomes today; when they are the same
\* day, the selected date is unchanged.
C8_VisibilityRollover ==
    [][handleVisibilityChange =>
          /\ DayBefore(currentDate, DateAt(now)) => currentDate' = DateAt(now)
          /\ currentDate = DateAt(now) => currentDate' = currentDate]_vars

\* The editor was opened for a new note on an earlier day and the page became
\* visible on the last day of the clock: the selected date is today, and the
\* color drawn at opening (never the color of the top note of the day then
\* selected) is the color of today's top note.
C8_Witness ==
    /\ pc = "ready"
    /\ isModalOpen
    /\ editingNoteId = Null
    /\ now >= TicksPerDay
    /\ DateAt(now) = DateAt(MaxClock)
    /\ currentDate = DateAt(now)
    /\ OnSelectedDate # <<>>
    /\ newNoteColor = OnSelectedDate[1].color

\* ---------------------------------------------------------------- C9
\* C9: the visibility handler changes the selected date only when the local
\* day is later than it; a selected date that is today or after today (a
\* future day picked in the calendar) is left as it is.
C9_OnlyWhenDayAdvanced ==
    [][handleVisibilityChange =>
          (~DayBefore(currentDate, DateAt(now)) => currentDate' = currentDate)]_vars

\* ---------------------------------------------------------------- C10
\* C10: a start-up over a slot the program has written reads back the
\* collection of that write (the load effect queues exactly the collection
\* persisted last), and the render that follows makes it the in-memory
\* collection.
C10_RoundTrip ==
    [][/\ (LoadEffect /\ persisted # Null) =>
              loaded' = Some([isArray |-> TRUE, value |-> persisted[1]])
       /\ (Rerender /\ loaded[1].isArray) => notes' = loaded[1].value]_vars

\* After the load effect of a start-up over a slot of two notes, one with a
\* quote and a backslash in its content and one with a negative rotation.
C10_Witness ==
    /\ pc = "save"
    /\ persisted # Null
    /\ loaded # Null
    /\ Len(loaded[1].value) = 2
    /\ \E i \in 1..2 : \E c \in 1..Len(loaded[1].value[i].content) :
          loaded[1].value[i].content[c] \in {"\"", "\\"}
    /\ \E i \in 1..2 : loaded[1].value[i].rotation < 0

\* ---------------------------------------------------------------- C11
\* C11: whatever the slot holds at start-up (nothing, text that does not
\* parse, or text that parses to something that is no list of notes), no
\* value that is no collection is queued as the store and the page does not
\* crash.
C11_MalformedSlotTolerated ==
    /\ pc # "crashed"
    /\ pc = "rerender" => loaded[1].isArray

\* ---------------------------------------------------------------- C12
\* C12: a Save in create mode puts the new note, dated with the selected
\* day, at the front of the store and at index 0 of the notes of that day,
\* in front of the notes the day had, which keep their order; so of two
\* notes created one after the other on a day the second is listed first.
C12_CreatedNoteFirst ==
    [][\A k \in AllRandoms :
          (handleSaveNote(k) /\ ~Blank(newNoteContent) /\ editingNoteId = Null) =>
              /\ Len(notes') = Len(notes) + 1
              /\ Tail(notes') = notes
              /\ notes'[1].date = toISODateString(currentDate)
              /\ notes'[1].content = newNoteContent
              /\ getNotesForDate(notes', currentDate) =
                     <<notes'[1]>> \o getNotesForDate(notes, currentDate)]_vars

\* Two notes created on the selected day in one clock tick: the note at the
\* front of the store is the first of the day.
C12_Witness ==
    /\ pc = "ready"
    /\ ~isModalOpen
    /\ Len(notes) = 2
    /\ notes[1].date = toISODateString(currentDate)
    /\ notes[2].date = notes[1].date
    /\ notes[1].timestamp = notes[2].timestamp
    /\ notes[1] # notes[2]
    /\ currentNotes = notes

\* ---------------------------------------------------------------- C13
\* C13: once the page has settled after a create, an edit or a confirmed
\* delete, the slot holds a text that parses to the whole in-memory
\* collection.
C13_SlotHoldsCollection ==
    pc = "ready" =>
        /\ localStorage # Null
        /\ LET r == JSON_parse(localStorage[1])
           IN r.ok /\ IsNoteArray(r.val) /\ NotesOfValue(r.val) = notes

\* After a confirmed delete: the editor had been opened on a note and
\* dismissed (the id it was opened on is still held), that note is no longer
\* in the store, and another note is.
C13_Witness ==
    /\ pc = "ready"
    /\ ~isModalOpen /\ ~isDrawerOpen /\ ~isDeleteConfirmOpen
    /\ editingNoteId # Null
    /\ Len(notes) = 1
    /\ Some(notes[1].id) # editingNoteId
    /\ localStorage # Null

\* ---------------------------------------------------------------- C14
\* C14: a create, an edit or a confirmed delete done while the storage
\* refuses the write leaves the page operable, with the mutated collection
\* in memory.
C14_WriteFailureSwallowed ==
    [][(/\ storageDenied
        /\ \/ \E k \in AllRandoms : handleSaveNote(k) /\ ~Blank(newNoteContent)
           \/ confirmDelete /\ actionNote # Null) =>
              pc' = "ready"]_vars

\* ---------------------------------------------------------------- C15
\* The number of flows that are open.
OpenFlows ==
    (IF isModalOpen THEN 1 ELSE 0) + (IF isDrawerOpen THEN 1 ELSE 0)
        + (IF isDeleteConfirmOpen THEN 1 ELSE 0)

\* C15: the editor, the action drawer and the delete confirmation are never
\* open together: at most one of them is open in every state.
C15_OneFlowAtATime == OpenFlows <= 1

\* ---------------------------------------------------------------- C16
\* C16: once every pointer that pressed the card has been released (or has
\* left it), no long-press timeout is pending any more, so no long-press
\* callback fires and the action flow is not entered; also after several
\* presses that began before the first release.
C16_ReleasedPressNeverFires ==
    (pc = "ready" /\ pressed = 0) => Pending = 0

\* ---------------------------------------------------------------- C17
\* C17: a click on a day of the calendar's month makes the view Daily, the
\* mode Stack and the selected date that day of the month shown, and keeps
\* the note collection.
C17_DayClickSelects ==
    [][\A day \in 1..31 :
          DayCellClick(day) =>
              /\ view' = "daily"
              /\ isGridMode' = FALSE
              /\ currentDate' = [year |-> viewDate[1].year,
                                 month |-> viewDate[1].month, date |-> day]
              /\ notes' = notes]_vars

\* The daily stack of a day after today: a day only the calendar selects.
C17_Witness ==
    /\ pc = "ready"
    /\ view = "daily"
    /\ ~isGridMode
    /\ viewDate = Null
    /\ DayBefore(DateAt(now), currentDate)
    /\ Len(notes) > 0

\* ---------------------------------------------------------------- C18
\* C18: dismissing the editor by its close button or its backdrop leaves the
\* editor closed, the buffer empty and no edit target, and keeps the note
\* collection.
C18_DismissDiscards ==
    [][closeModal =>
          /\ ~isModalOpen'
          /\ newNoteContent' = <<>>
          /\ editingNoteId' = Null
          /\ notes' = notes]_vars

\* ---------------------------------------------------------------- C19
\* C19: leaving the drawer by its backdrop, or the delete confirmation by
\* Keep or its backdrop, ends with neither of them open, no action target
\* and the note collection unchanged; Discard also ends with neither open
\* and no action target.
C19_ActionFlowEndsIdle ==
    [][/\ (closeDrawer \/ closeDeleteConfirm) =>
              /\ ~isDrawerOpen' /\ ~isDeleteConfirmOpen'
              /\ actionNote' = Null
              /\ notes' = notes
       /\ confirmDelete =>
              /\ ~isDrawerOpen' /\ ~isDeleteConfirmOpen'
              /\ actionNote' = Null]_vars

\* ---------------------------------------------------------------- C20
\* C20: the content of every note of the store is not empty and neither
\* begins nor ends with white space.
C20_ContentTrimmed ==
    \A i \in 1..Len(notes) :
        /\ Len(notes[i].content) > 0
        /\ ~IsSpace(notes[i].content[1])
        /\ ~IsSpace(notes[i].content[Len(notes[i].content)])

\* ---------------------------------------------------------------- C21
\* No note of the store has the id.
IdAbsent(id) == \A i \in 1..Len(notes) : notes[i].id # id

C22_CalendarImpliesStack ==
    /\ [](view = "calendar" => ~isGridMode)
    /\ [][/\ handleViewSwitch("calendar") => view' = "calendar" /\ ~isGridMode'
          /\ handleViewSwitch("daily") =>
                 /\ view' = "daily"
                 /\ isGridMode' = isGridMode
                 /\ currentDate' = currentDate]_vars

\* The calendar is shown after a note of the selected day was clicked in
\* the grid (the note is still held as action target): the grid mode that
\* was on is off.
C22_Witness ==
    /\ pc = "ready"
    /\ view = "calendar"
    /\ ~isGridMode
    /\ actionNote # Null
    /\ actionNote[1].date = toISODateString(currentDate)
    /\ Len(currentNotes) > 0

\* ---------------------------------------------------------------- C23
\* The step keeps the DailyStack instance: it stays rendered, under the same
\* key, in the same page.
SameStack ==
    /\ pc' # "load"
    /\ StackMounted(view, isGridMode)
    /\ StackMounted(view', isGridMode')
    /\ toISODateString(currentDate') = toISODateString(currentDate)

\* C23: the end of a drag of more than the threshold, to the left or to the
\* right, adds one to the cursor, and of at most the threshold keeps the
\* cursor; no step decreases the cursor of a stack; after a swipe, n - 1
\* more swipes over the n notes of the day lead back to the active note
\* there was before it.
C23_SwipeAdvancesByOne ==
    [][/\ \A offsetX \in DragOffsets :
             (dragging /\ ~dragging' /\ handleDragEnd(offsetX)) =>
                 currentIndex' = IF offsetX > swipeThreshold \/ offsetX < 0 - swipeThreshold
                                 THEN currentIndex + 1 ELSE currentIndex
       /\ currentIndex' < currentIndex => ~SameStack
       /\ (currentIndex' = currentIndex + 1 /\ CardRendered /\ SameStack) =>
             LET n == Len(currentNotes)
             IN JsRem(currentIndex' + (n - 1), n) = activeIndex]_vars

\* Two swipes over a day of two notes, the last one to the left: the cursor
\* is 2 and the first note is active again.
C23_Witness ==
    /\ pc = "ready"
    /\ CardRendered
    /\ Len(currentNotes) = 2
    /\ currentIndex = 2
    /\ direction = -1
    /\ activeNote = currentNotes[1]

\* ---------------------------------------------------------------- C24
\* C24: previous and next keep the selected date, the view and the note
\* collection and move the month cursor by one month, to a month 0..11 of
\* the year before or after where the year ends; the opposite step from
\* the month reached leads back to the year and month left.
C24_MonthCursorSteps ==
    [][/\ prevMonth =>
             /\ UNCHANGED <<currentDate, view, notes>>
             /\ viewDate'[1].month \in 0..11
             /\ viewDate'[1].year * 12 + viewDate'[1].month
                    = viewDate[1].year * 12 + viewDate[1].month - 1
             /\ MonthOf(viewDate'[1].year, viewDate'[1].month + 1) = viewDate[1]
       /\ nextMonth =>
             /\ UNCHANGED <<currentDate, view, notes>>
             /\ viewDate'[1].month \in 0..11
             /\ viewDate'[1].year * 12 + viewDate'[1].month
                    = viewDate[1].year * 12 + viewDate[1].month + 1
             /\ MonthOf(viewDate'[1].year, viewDate'[1].month - 1) = viewDate[1]]_vars

\* The calendar shows January 2025 while the selected date is still the
\* 31st of December 2024, the day the calendar was opened on.
C24_Witness ==
    /\ pc = "ready"
    /\ view = "calendar"
    /\ currentDate = EpochDate
    /\ viewDate = Some([year |-> EpochDate.year + 1, month |-> 0])

\* ---------------------------------------------------------------- C25
\* C25: whenever the drawer or the delete confirmation is open, an action
\* target is set and the store holds a note with the target's id.
C25_OpenActionHasLiveTarget ==
    (isDrawerOpen \/ isDeleteConfirmOpen)
        => /\ actionNote # Null
           /\ ~IdAbsent(actionNote[1].id)

\* ---------------------------------------------------------------- C26
\* C26: the new-note button leaves the editor open with no edit target,
\* whatever target an earlier session left behind; while no target is set
\* only the drawer's Edit sets one; and a Save with a non-blank buffer and
\* no target puts one new note before the notes of the store and keeps
\* every one of them as it is.
C26_CreateNeverEdits ==
    [][/\ \A k \in AllRandoms :
             openNewNoteModal(k) => (isModalOpen' /\ editingNoteId' = Null)
       /\ (editingNoteId = Null /\ editingNoteId' # Null) => handleEditAction
       /\ \A k \in AllRandoms :
             (handleSaveNote(k) /\ ~Blank(newNoteContent) /\ editingNoteId = Null) =>
                 /\ Len(notes') = Len(notes) + 1
                 /\ notes'[1].content = newNoteContent
                 /\ \A i \in 1..Len(notes) : notes'[i + 1] = notes[i]]_vars

\* After a note was created while the note picked for an earlier action is
\* still held: the editor is closed, the picked note is in the store as it
\* was picked, behind a note of another id.
C26_Witness ==
    /\ pc = "ready"
    /\ ~isModalOpen
    /\ editingNoteId = Null
    /\ actionNote # Null
    /\ Len(notes) = 2
    /\ notes[2] = actionNote[1]
    /\ notes[1].id # notes[2].id
    /\ notes[1].timestamp > notes[2].timestamp

\* ---------------------------------------------------------------- C27
\* C27: from the load of a well-formed collection with at least one note
\* until the page is ready for the user, the slot holds the text of that
\* collection.
C27_SlotKeptDuringStartup ==
    (/\ pc \in {"save", "rerender"}
     /\ loaded # Null
     /\ loaded[1].isArray
     /\ loaded[1].value # <<>>)
        => localStorage = Some(JSON_stringify(loaded[1].value))

====
